---- MODULE Spec2Model ----
(***************************************************************************)
(* Model of the entity-access methods of @moleculer/database               *)
(* (src/unnamed/part_000): the adapter registry with its connection and    *)
(* disconnection life cycle, the create / update / replace / remove        *)
(* operations with their change notification, resolveEntities, the query   *)
(* plan built by sanitizeParams and _applyScopes, and the streamEntities   *)
(* pipeline.                                                               *)
(***************************************************************************)
EXTENDS Integers, Sequences, FiniteSets, TLC

VARIABLES
    autoReconnect,  \* mixinOpts.autoReconnect
    hasDisconnect,  \* whether the configured adapter class has a disconnect method
    adapters,       \* this.adapters: tenant key -> adapter instance (or NoAdapter)
    inst,           \* per adapter instance: connection loop, disconnect state
    call,           \* the getAdapter() calls
    dcall,          \* the disconnectAll() calls
    epoch,          \* number of disconnectAll() calls made so far
    settings,       \* primary field, soft delete and cache options of the service
    store,          \* ids of the entities the adapter holds
    op,             \* the entity operation in progress
    other,          \* a second entity operation, suspended at one of its awaits
    opCount,        \* number of entity operations started so far
    rs,             \* the resolveEntities() call under study and its outcome
    plan,           \* the query-plan call under study: parameters in, plan out
    pipe            \* the streamEntities() pipeline: source, transform, consumer

regVars == <<autoReconnect, hasDisconnect, adapters, inst, call, dcall, epoch>>

crudVars == <<settings, store, op, other, opCount>>

readVars == <<rs, plan, pipe>>

vars == <<regVars, crudVars, readVars>>

----------------------------------------------------------------------------
(* Bounds *)

MaxCalls == 2         \* getAdapter() calls in one behaviour
MaxDisconnects == 1   \* disconnectAll() calls in one behaviour
MaxOps == 2           \* entity operations run one after the other
MaxBatch == 2         \* entities in one createEntities() call
MaxId == 3            \* ids the adapter can hand out

Keys == {"t1", "t2"}  \* hashes getAdapterByContext can return
ConnectErrors == {"ECONNREFUSED", "ETIMEDOUT"}

Calls == 1..MaxCalls
DCalls == 1..MaxDisconnects
AdapterIds == Calls   \* the adapter created by call c is instance c
NoAdapter == 0
NoErr == "none"

----------------------------------------------------------------------------
(* Entity operations: create, createMany, update, replace, remove *)

RawIds == 1..MaxId
NoId == 0                     \* params carries no id
CallerIds == {NoId, 1, 2}     \* the id values callers pass
NoEvent == "none"             \* cache.eventName left unset

\* $primaryField.name is "id"; $primaryField.columnName is "id" or "_id"
PrimaryName == "id"
PayloadKeys == {"id", "_id", "title"}

IdleOp ==
    [kind |-> "none", pc |-> "idle", id |-> NoId, given |-> {}, payload |-> {},
     raw |-> FALSE, secureID |-> "unset",
     transform |-> TRUE, pendingV |-> {}, batch |-> 0, target |-> NoId,
     sent |-> {}, trace |-> <<>>, err |-> NoErr, before |-> {},
     hit |-> FALSE, changeOpts |-> "unset", ret |-> NoId]

\* the service's own encodeID / decodeID, or hooks the service overrides
Codecs == {"default", "offset"}

\* no resolveEntities(), query-plan or stream call is under way
NoResult == [kind |-> "none", map |-> <<>>, list |-> <<>>]

IdleRs ==
    [pc |-> "idle", ids |-> <<>>, multi |-> FALSE, mapping |-> FALSE,
     throwIfNotExist |-> FALSE, secureID |-> "unset", transform |-> TRUE,
     sought |-> <<>>, searched |-> FALSE, raw |-> <<>>, err |-> NoErr,
     errId |-> <<>>, ret |-> NoResult]
\* a parameter value: absent, a number, a string (its characters) or NaN
Absent == [t |-> "absent", n |-> 0, s |-> <<>>]
Num(n) == [t |-> "num", n |-> n, s |-> <<>>]
Str(s) == [t |-> "str", n |-> 0, s |-> s]
NaN == [t |-> "nan", n |-> 0, s |-> <<>>]

\* params.query: absent, or the caller's object with its conditions
NoQuery == [given |-> FALSE, conds |-> {}]

\* params.scope: absent, false, one name or an array of names
NoScope == [t |-> "absent", names |-> <<>>]

NoParams ==
    [limit |-> Absent, offset |-> Absent, page |-> Absent, pageSize |-> Absent,
     query |-> NoQuery, scope |-> NoScope]

\* what the adapter is handed: ref tells whose object params.query is
NoPlan ==
    [method |-> "none", limit |-> Absent, offset |-> Absent, page |-> Absent,
     pageSize |-> Absent, query |-> [ref |-> "none", conds |-> {}],
     active |-> <<>>]

IdlePlan ==
    [pc |-> "idle", op |-> "none",
     mixin |-> [maxLimit |-> 0, defaultPageSize |-> 10, defaultScopes |-> <<>>],
     in |-> NoParams, out |-> NoPlan, callerAfter |-> {}]
NoItem == 0

\* src: what the adapter's stream holds; sent: how much of it was emitted;
\* queue: chunks written to the Transform and not yet taken; busy: the chunk
\* whose transformResult is awaited; stuck: its callback will never be
\* called; ending: transform.end() was called; out: what the consumer got
IdlePipe ==
    [pc |-> "idle", transform |-> TRUE, src |-> <<>>, sent |-> 0,
     srcState |-> "none", queue |-> <<>>, busy |-> NoItem, stuck |-> FALSE,
     ending |-> FALSE, out |-> <<>>, consumer |-> "none"]

ReadIdle ==
    /\ rs = IdleRs
    /\ plan = IdlePlan
    /\ pipe = IdlePipe

CrudIdle ==
    /\ settings = [columnName |-> "id", secure |-> FALSE, codec |-> "default",
                   softDelete |-> FALSE,
                   cacheEnabled |-> FALSE, eventName |-> NoEvent]
    /\ store = {}
    /\ op = IdleOp
    /\ other = IdleOp
    /\ opCount = 0

\* const cacheOpts = mixinOpts.cache && mixinOpts.cache.enabled ? mixinOpts.cache : null
CacheOpts == IF settings.cacheEnabled THEN settings.eventName ELSE NoEvent

EntityChangedByEventName(type) ==
    (IF settings.eventName # NoEvent
     THEN <<<<"broadcast", settings.eventName>>>> ELSE <<>>)
    \o <<<<"hook", type>>>>

\* _entityChanged: the broadcast when cacheOpts has an event name, then the hook
EntityChanged(type) ==
    (IF CacheOpts # NoEvent THEN <<<<"broadcast", CacheOpts>>>> ELSE <<>>)
    \o <<<<"hook", type>>>>

\* encodeID(id): the default hook returns the id unchanged; the overriding
\* hook of the model shifts it out of the range of the stored ids
EncodeID(id) == IF settings.codec = "offset" THEN id + 10 ELSE id

\* decodeID(id): the default hook returns the id unchanged; the overriding
\* hook undoes encodeID
DecodeID(id) == IF settings.codec = "offset" THEN id - 10 ELSE id

\* _sanitizeID(id, opts): opts.secureID, when set, decides; else the field's flag
SanitizeID(id, secureID) ==
    IF secureID # "unset"
    THEN (IF secureID = "true" THEN DecodeID(id) ELSE id)
    ELSE IF settings.secure THEN DecodeID(id)
    ELSE id

StripColumnOnly(payload) == payload \ {settings.columnName}

\* delete params[columnName]; if (columnName != name) delete params[name]
StripPrimary(payload) ==
    IF settings.columnName # PrimaryName
    THEN (payload \ {settings.columnName}) \ {PrimaryName}
    ELSE payload \ {settings.columnName}

ResolveNeverThrows(result, throwIfNotExist) == "ok"

\* if (!result || result.length == 0) { if (opts.throwIfNotExist) throw ... }
ResolveOutcome(result, throwIfNotExist) ==
    IF result = {} /\ throwIfNotExist THEN "EntityNotFound" ELSE "ok"

OnValidationSwallow(ok) == "continue"

\* params = await this.validateParams(...): a rejection ends the operation
OnValidation(ok) == IF ok THEN "continue" ELSE "throw"

\* adapter.find(params) with the primary column set to the id; the query the
\* scopes have folded in may leave the entity out
Find(id, hidden) == IF hidden THEN {} ELSE {id} \cap store

\* the id resolveEntities looks for: its opts carry no secureID
ResolveID(o) == SanitizeID(o.id, "unset")

\* the ids adapter.insert / insertMany give to n new entities
FreshIds(n) == {i \in RawIds : Cardinality({j \in RawIds \ store : j <= i}) <= n
                               /\ i \notin store}

\* the adapter write method of an operation
WriteMethod(kind) ==
    CASE kind = "create" -> "insert"
      [] kind = "createMany" -> "insertMany"
      [] kind = "update" -> "updateById"
      [] kind = "replace" -> "replaceById"
      [] kind = "remove" ->
            IF settings.softDelete THEN "updateById" ELSE "removeById"

\* the type passed to _entityChanged
ChangeType(kind) == IF kind = "createMany" THEN "create" ELSE kind

CanStart == op.pc \in {"idle", "done", "failed"} /\ opCount < MaxOps

Fail(o, e) == [o EXCEPT !.pc = "failed", !.err = e]

Log(o, events) == [o EXCEPT !.trace = @ \o events]

\* the validation collaborator has answered: its rejection is on record
Validated(o, ok, type) == IF ok THEN o ELSE Log(o, <<<<"invalid", type>>>>)

\* the adapter write is called with the sanitized id and the current payload
CallWrite(o) ==
    [Log(o, <<<<"call", WriteMethod(o.kind)>>>>) EXCEPT
        !.pc = "write", !.target = SanitizeID(o.id, o.secureID), !.sent = o.payload,
        !.hit = SanitizeID(o.id, o.secureID) \in store]

CallValidate(o, type) ==
    [Log(o, <<<<"validate", type>>>>) EXCEPT !.pc = "validate"]

NewOp(kind, id, payload, raw, tf) ==
    [IdleOp EXCEPT !.kind = kind, !.id = id, !.given = payload,
                   !.payload = payload, !.raw = raw,
                   !.transform = tf, !.before = store]

\* createEntity up to await this.validateParams(ctx, params, { type: "create" })
CreateStart(payload, tf) ==
    /\ CanStart
    /\ op' = CallValidate(NewOp("create", NoId, payload, FALSE, tf), "create")
    /\ opCount' = opCount + 1
    /\ UNCHANGED <<regVars, readVars, other, settings, store>>

\* createEntities up to await Promise.all(params.map(validateParams))
CreateManyStart(n, tf) ==
    /\ CanStart
    /\ op' = [Log(NewOp("createMany", NoId, {}, FALSE, tf),
                  [i \in 1..n |-> <<"validate", "create">>])
              EXCEPT !.batch = n, !.pendingV = 1..n,
                     !.pc = IF n = 0 THEN "getAdapter" ELSE "validateMany"]
    /\ opCount' = opCount + 1
    /\ UNCHANGED <<regVars, readVars, other, settings, store>>

\* _getIDFromParams, then resolveEntities up to await this.getAdapter(ctx)
ResolveBegin(o) ==
    IF o.id = NoId THEN Fail(o, "MISSING_ID")
    ELSE [Log(o, <<<<"resolve", "call">>>>) EXCEPT !.pc = "resolveAdapter"]

\* updateEntity up to the await inside resolveEntities
UpdateStart(id, extra, raw, tf) ==
    /\ CanStart
    /\ op' = ResolveBegin(NewOp("update", id,
                 IF id = NoId THEN extra ELSE extra \cup {PrimaryName}, raw, tf))
    /\ opCount' = opCount + 1
    /\ UNCHANGED <<regVars, readVars, other, settings, store>>

\* replaceEntity up to the await inside resolveEntities
ReplaceStart(id, extra, tf) ==
    /\ CanStart
    /\ op' = ResolveBegin(NewOp("replace", id,
                 IF id = NoId THEN extra ELSE extra \cup {PrimaryName}, FALSE, tf))
    /\ opCount' = opCount + 1
    /\ UNCHANGED <<regVars, readVars, other, settings, store>>

\* removeEntity up to the await inside resolveEntities
RemoveStart(id, extra, tf) ==
    /\ CanStart
    /\ op' = ResolveBegin(NewOp("remove", id,
                 IF id = NoId THEN extra ELSE extra \cup {PrimaryName}, FALSE, tf))
    /\ opCount' = opCount + 1
    /\ UNCHANGED <<regVars, readVars, other, settings, store>>

\* resolveEntities: await this.getAdapter(ctx) settles
ResolveAdapter(ok) ==
    /\ op.pc = "resolveAdapter"
    /\ op' = IF ok THEN [op EXCEPT !.pc = "resolveFind"]
             ELSE Fail(op, "ConnectionFailed")
    /\ UNCHANGED <<regVars, readVars, other, settings, store, opCount>>

\* what the caller of resolveEntities does with the entity found, up to its
\* next await: update validates (or, raw, strips and asks for the adapter);
\* replace and remove ask for the adapter
AfterResolve(o) ==
    IF o.kind = "update"
    THEN IF o.raw
         THEN [o EXCEPT !.payload = StripPrimary(@), !.pc = "getAdapter"]
         ELSE CallValidate(o, "update")
    ELSE [o EXCEPT !.pc = "getAdapter"]

\* resolveEntities: await adapter.find(params) settles; throwIfNotExist is set
ResolveFind(ok, hidden) ==
    /\ op.pc = "resolveFind"
    /\ op' =
         IF ~ok THEN Fail(op, "AdapterOperationFailed")
         ELSE IF ResolveOutcome(Find(ResolveID(op), hidden), TRUE) = "EntityNotFound"
         THEN Fail(Log(op, <<<<"resolve", "empty">>>>), "EntityNotFound")
         ELSE AfterResolve(Log(op,
                 <<<<"resolve", IF Find(ResolveID(op), hidden) = {}
                                THEN "empty" ELSE "found">>>>))
    /\ UNCHANGED <<regVars, readVars, other, settings, store, opCount>>

\* await this.validateParams(...) settles with the sanitized payload v, or rejects
Validate(ok, v) ==
    /\ op.pc = "validate"
    /\ LET o == Validated(op, ok, ChangeType(op.kind)) IN
       op' =
         IF OnValidation(ok) = "throw" THEN Fail(o, "ValidationFailed")
         ELSE CASE o.kind = "create" ->
                     [o EXCEPT !.payload = v, !.pc = "getAdapter"]
                [] o.kind = "update" ->
                     [o EXCEPT !.payload = StripPrimary(v), !.pc = "getAdapter"]
                [] o.kind = "replace" ->
                     CallWrite([o EXCEPT !.payload = StripPrimary(v)])
                [] o.kind = "remove" ->
                     CallWrite([o EXCEPT !.payload = v])
    /\ UNCHANGED <<regVars, readVars, other, settings, store, opCount>>

\* createEntities: the validation of item i settles; Promise.all rejects with
\* the first rejection and fulfils when every item is validated
ValidateItem(i, ok) ==
    /\ op.pc = "validateMany"
    /\ i \in op.pendingV
    /\ LET o == Validated(op, ok, "create") IN
       op' =
         IF OnValidation(ok) = "throw" THEN Fail(o, "ValidationFailed")
         ELSE [o EXCEPT !.pendingV = @ \ {i},
                        !.pc = IF o.pendingV = {i} THEN "getAdapter" ELSE @]
    /\ UNCHANGED <<regVars, readVars, other, settings, store, opCount>>

\* await this.getAdapter(ctx) settles in the operation itself: create,
\* createMany and update then call the write; replace and remove validate
GetAdapter(ok) ==
    /\ op.pc = "getAdapter"
    /\ op' =
         IF ~ok THEN Fail(op, "ConnectionFailed")
         ELSE CASE op.kind \in {"create", "createMany", "update"} -> CallWrite(op)
                [] op.kind = "replace" -> CallValidate(op, "replace")
                [] op.kind = "remove" -> CallValidate(op, "remove")
    /\ UNCHANGED <<regVars, readVars, other, settings, store, opCount>>

\* what the adapter holds once the write has been carried out
Written(o) ==
    CASE o.kind = "create" -> store \cup FreshIds(1)
      [] o.kind = "createMany" -> store \cup FreshIds(o.batch)
      [] WriteMethod(o.kind) = "removeById" -> store \ {o.target}
      [] OTHER -> store

\* the adapter has room for the entities to insert
CanWrite(o) ==
    CASE o.kind = "create" -> Cardinality(RawIds \ store) >= 1
      [] o.kind = "createMany" -> Cardinality(RawIds \ store) >= o.batch
      [] OTHER -> TRUE

\* the softDelete option _entityChanged is given: removeEntity passes
\* { ...opts, type: "remove", softDelete: !!this.$softDelete }, the others none
ChangeOpts(kind) ==
    IF kind = "remove"
    THEN (IF settings.softDelete THEN "true" ELSE "false")
    ELSE "unset"

\* after the write (and the transform): _entityChanged, then return
Notify(o) ==
    [Log(o, EntityChanged(ChangeType(o.kind))) EXCEPT
        !.pc = "notified", !.changeOpts = ChangeOpts(o.kind)]

\* the awaited adapter write settles
Write(ok) ==
    /\ op.pc = "write"
    /\ ok => CanWrite(op)
    /\ IF ~ok
       THEN /\ op' = Fail(op, "AdapterOperationFailed")
            /\ store' = store
       ELSE /\ store' = Written(op)
            /\ LET o == Log(op, <<<<"done", WriteMethod(op.kind)>>>>) IN
               op' = IF o.transform THEN [o EXCEPT !.pc = "transform"]
                     ELSE Notify(o)
    /\ UNCHANGED <<regVars, readVars, other, settings, opCount>>

\* await this.transformResult(...) settles (opts.transform !== false)
Transform(ok) ==
    /\ op.pc = "transform"
    /\ op' = IF ok THEN Notify(op) ELSE Fail(op, "TransformFailed")
    /\ UNCHANGED <<regVars, readVars, other, settings, store, opCount>>

RemoveResultSanitized(o) == o.target

\* removeEntity: return origID, the id as _getIDFromParams read it
RemoveResult(o) == o.id

\* await this._entityChanged(...) is over: the operation returns (the id for
\* removeEntity; the entity, not modelled, for the others)
Return ==
    /\ op.pc = "notified"
    /\ op' = [op EXCEPT !.pc = "done",
                        !.ret = IF op.kind = "remove" THEN RemoveResult(op) ELSE NoId]
    /\ UNCHANGED <<regVars, readVars, other, settings, store, opCount>>

----------------------------------------------------------------------------
(* Adapter registry: getAdapter, _connect, _disconnect, disconnectAll *)

NoInst ==
    [loop |-> "none", attempts |-> 0, up |-> FALSE, disc |-> "none",
     discCalls |-> 0, key |-> "t1", epoch |-> 0, err |-> NoErr]

IdleCall ==
    [st |-> "idle", key |-> "t1", epoch |-> 0, adapter |-> NoAdapter,
     creator |-> FALSE, connected |-> FALSE, err |-> NoErr]

IdleDCall == [st |-> "idle", targets |-> {}]

\* const item = this.adapters.get(hash)
RegistryGet(reg, hash) == reg[hash]

RegistrySetLate(reg, hash, a) == reg

\* this.adapters.set(hash, { hash, adapter }), done before the connect is awaited
RegistrySet(reg, hash, a) == [reg EXCEPT ![hash] = a]

OnConnectErrorAlwaysReject(auto) == "rejected"

OnConnectErrorAlwaysRetry(auto) == "timer"

\* the catch branch of connecting(): setTimeout(connecting, 1000) or reject(err)
OnConnectError(auto) == IF auto THEN "timer" ELSE "rejected"

\* the state of Promise.all over the disconnect promises of `targets`
PromiseAll(in, targets) ==
    IF \E a \in targets : in[a].disc = "err" THEN "rejected"
    ELSE IF \A a \in targets : in[a].disc \in {"ok", "noop"} THEN "resolved"
    ELSE "pending"

\* a settled promise keeps its state
SettleDCalls(dc, in) ==
    [d \in DCalls |->
        IF dc[d].st = "pending"
        THEN [dc[d] EXCEPT !.st = PromiseAll(in, dc[d].targets)]
        ELSE dc[d]]

\* calls are numbered in the order they are made
NextCall(c) == call[c].st = "idle" /\ \A c2 \in 1..(c - 1) : call[c2].st # "idle"

\* tenant keys are interchangeable: "t1" names the key of the first call
KeyInUse(c, k) == k = "t1" \/ c > 1

NextDCall(d) == dcall[d].st = "idle" /\ \A d2 \in 1..(d - 1) : dcall[d2].st # "idle"

\* getAdapter when the registry holds an entry for the hash: return item.adapter
GetAdapterCached(c, k) ==
    /\ NextCall(c)
    /\ KeyInUse(c, k)
    /\ RegistryGet(adapters, k) # NoAdapter
    /\ LET a == RegistryGet(adapters, k) IN
       call' = [call EXCEPT ![c] =
                  [st |-> "returned", key |-> k, epoch |-> epoch, adapter |-> a,
                   creator |-> FALSE, connected |-> inst[a].loop = "resolved",
                   err |-> NoErr]]
    /\ UNCHANGED <<crudVars, readVars, autoReconnect, hasDisconnect, adapters, inst, dcall, epoch>>

\* getAdapter when there is no entry: resolve, init, set, start _connect, await
GetAdapterCreate(c, k) ==
    /\ NextCall(c)
    /\ KeyInUse(c, k)
    /\ RegistryGet(adapters, k) = NoAdapter
    /\ inst' = [inst EXCEPT ![c] =
                  [loop |-> "connecting", attempts |-> 1, up |-> FALSE,
                   disc |-> "none", discCalls |-> 0, key |-> k,
                   epoch |-> epoch, err |-> NoErr]]
    /\ adapters' = RegistrySet(adapters, k, c)
    /\ call' = [call EXCEPT ![c] =
                  [st |-> "pending", key |-> k, epoch |-> epoch, adapter |-> c,
                   creator |-> TRUE, connected |-> FALSE, err |-> NoErr]]
    /\ UNCHANGED <<crudVars, readVars, autoReconnect, hasDisconnect, dcall, epoch>>

\* await adapter.connect() fulfils: resolve()
ConnectOk(a) ==
    /\ inst[a].loop = "connecting"
    /\ inst' = [inst EXCEPT ![a].loop = "resolved", ![a].up = TRUE]
    /\ UNCHANGED <<crudVars, readVars, autoReconnect, hasDisconnect, adapters, call, dcall, epoch>>

\* await adapter.connect() rejects with e: the catch branch
ConnectFail(a, e) ==
    /\ inst[a].loop = "connecting"
    /\ inst' = [inst EXCEPT
                  ![a].loop = OnConnectError(autoReconnect),
                  ![a].err = IF OnConnectError(autoReconnect) = "rejected"
                             THEN e ELSE @]
    /\ UNCHANGED <<crudVars, readVars, autoReconnect, hasDisconnect, adapters, call, dcall, epoch>>

\* the 1000 ms timer fires: connecting() again (attempts counts 1, then 2 for
\* "two or more": it is an observation, nothing reads it)
Reconnect(a) ==
    /\ inst[a].loop = "timer"
    /\ inst' = [inst EXCEPT ![a].loop = "connecting",
                            ![a].attempts = IF @ < 2 THEN @ + 1 ELSE @]
    /\ UNCHANGED <<crudVars, readVars, autoReconnect, hasDisconnect, adapters, call, dcall, epoch>>

\* the creating getAdapter call resumes after await this._connect(adapter)
GetAdapterResume(c) ==
    /\ call[c].st = "pending"
    /\ inst[call[c].adapter].loop \in {"resolved", "rejected"}
    /\ call' = [call EXCEPT ![c] =
                  IF inst[call[c].adapter].loop = "resolved"
                  THEN [@ EXCEPT !.st = "returned", !.connected = TRUE]
                  ELSE [@ EXCEPT !.st = "failed",
                                 !.err = inst[call[c].adapter].err]]
    /\ UNCHANGED <<crudVars, readVars, autoReconnect, hasDisconnect, adapters, inst, dcall, epoch>>

\* _disconnect(adapter): adapter.disconnect() if it is a function, else resolved
Disconnect(in, a) ==
    IF hasDisconnect
    THEN [in[a] EXCEPT !.disc = "pending", !.discCalls = @ + 1]
    ELSE [in[a] EXCEPT !.disc = "noop"]

\* disconnectAll(): snapshot the entries, clear the registry, disconnect each
DisconnectAll(d) ==
    /\ NextDCall(d)
    /\ LET targets == {adapters[k] : k \in Keys} \ {NoAdapter}
           in2 == [a \in AdapterIds |->
                     IF a \in targets THEN Disconnect(inst, a) ELSE inst[a]]
       IN /\ inst' = in2
          /\ dcall' = [dcall EXCEPT ![d] =
                         [st |-> PromiseAll(in2, targets), targets |-> targets]]
    /\ adapters' = [k \in Keys |-> NoAdapter]
    /\ epoch' = epoch + 1
    /\ UNCHANGED <<crudVars, readVars, autoReconnect, hasDisconnect, call>>

\* adapter.disconnect() fulfils
DisconnectOk(a) ==
    /\ inst[a].disc = "pending"
    /\ inst' = [inst EXCEPT ![a].disc = "ok", ![a].up = FALSE]
    /\ dcall' = SettleDCalls(dcall, inst')
    /\ UNCHANGED <<crudVars, readVars, autoReconnect, hasDisconnect, adapters, call, epoch>>

\* adapter.disconnect() rejects
DisconnectFail(a) ==
    /\ inst[a].disc = "pending"
    /\ inst' = [inst EXCEPT ![a].disc = "err"]
    /\ dcall' = SettleDCalls(dcall, inst')
    /\ UNCHANGED <<crudVars, readVars, autoReconnect, hasDisconnect, adapters, call, epoch>>

\* the registry before its first use
RegistryInit ==
    /\ adapters = [k \in Keys |-> NoAdapter]
    /\ inst = [a \in AdapterIds |-> NoInst]
    /\ call = [c \in Calls |-> IdleCall]
    /\ dcall = [d \in DCalls |-> IdleDCall]
    /\ epoch = 0

Init ==
    /\ autoReconnect \in BOOLEAN
    /\ hasDisconnect \in BOOLEAN
    /\ RegistryInit
    /\ CrudIdle
    /\ ReadIdle

Next ==
    \/ \E c \in Calls, k \in Keys : GetAdapterCached(c, k)
    \/ \E c \in Calls, k \in Keys : GetAdapterCreate(c, k)
    \/ \E a \in AdapterIds : ConnectOk(a)
    \/ \E a \in AdapterIds, e \in ConnectErrors : ConnectFail(a, e)
    \/ \E a \in AdapterIds : Reconnect(a)
    \/ \E c \in Calls : GetAdapterResume(c)
    \/ \E d \in DCalls : DisconnectAll(d)
    \/ \E a \in AdapterIds : DisconnectOk(a)
    \/ \E a \in AdapterIds : DisconnectFail(a)

Spec == Init /\ [][Next]_vars

\* Every connect() promise settles one way or the other, the reconnect timer
\* fires and a resumed continuation runs; nothing is assumed about which way
\* connect() settles.
Fairness ==
    /\ \A a \in AdapterIds :
          WF_vars(ConnectOk(a) \/ \E e \in ConnectErrors : ConnectFail(a, e))
    /\ \A a \in AdapterIds : WF_vars(Reconnect(a))
    /\ \A c \in Calls : WF_vars(GetAdapterResume(c))

\* the registry with auto-reconnect switched on
FairInit == Init /\ autoReconnect

FairSpec == FairInit /\ [][Next]_vars /\ Fairness

----------------------------------------------------------------------------
(* The entity operations on a connected service *)

CrudInit ==
    /\ autoReconnect = TRUE
    /\ hasDisconnect = TRUE
    /\ RegistryInit
    /\ settings \in [columnName : {"id", "_id"}, secure : {FALSE},
                     codec : {"default"}, softDelete : BOOLEAN,
                     cacheEnabled : BOOLEAN, eventName : {NoEvent, "cache.clean"}]
    /\ store = {1}
    /\ op = IdleOp
    /\ other = IdleOp
    /\ opCount = 0
    /\ ReadIdle

CrudNext ==
    \/ \E p \in SUBSET PayloadKeys, tf \in BOOLEAN : CreateStart(p, tf)
    \/ \E n \in 0..MaxBatch, tf \in BOOLEAN : CreateManyStart(n, tf)
    \/ \E id \in CallerIds, x \in SUBSET (PayloadKeys \ {PrimaryName}),
          raw \in BOOLEAN, tf \in BOOLEAN : UpdateStart(id, x, raw, tf)
    \/ \E id \in CallerIds, x \in SUBSET (PayloadKeys \ {PrimaryName}),
          tf \in BOOLEAN : ReplaceStart(id, x, tf)
    \/ \E id \in CallerIds, x \in SUBSET (PayloadKeys \ {PrimaryName}),
          tf \in BOOLEAN : RemoveStart(id, x, tf)
    \/ \E ok \in BOOLEAN : ResolveAdapter(ok)
    \/ \E ok \in BOOLEAN, hidden \in BOOLEAN : ResolveFind(ok, hidden)
    \/ \E ok \in BOOLEAN, v \in SUBSET PayloadKeys : Validate(ok, v)
    \/ \E i \in 1..MaxBatch, ok \in BOOLEAN : ValidateItem(i, ok)
    \/ \E ok \in BOOLEAN : GetAdapter(ok)
    \/ \E ok \in BOOLEAN : Write(ok)
    \/ \E ok \in BOOLEAN : Transform(ok)
    \/ Return

CrudSpec == CrudInit /\ [][CrudNext]_vars

----------------------------------------------------------------------------
(* update, replace and remove under the secure-id settings *)

\* the ids callers pass: raw, or as the overriding encodeID writes them
SecureCallerIds == CallerIds \cup {id + 10 : id \in CallerIds \ {NoId}}

SecureIDOpts == {"unset", "true", "false"}

\* updateEntity / replaceEntity / removeEntity(ctx, params, opts) with
\* opts.secureID, up to the await inside resolveEntities
SecureStart(kind, id, sid, tf) ==
    /\ CanStart
    /\ op' = ResolveBegin([NewOp(kind, id,
                               IF id = NoId THEN {} ELSE {PrimaryName}, FALSE, tf)
                           EXCEPT !.secureID = sid])
    /\ opCount' = opCount + 1
    /\ UNCHANGED <<regVars, readVars, other, settings, store>>

SecureInit ==
    /\ autoReconnect = TRUE
    /\ hasDisconnect = TRUE
    /\ RegistryInit
    /\ settings \in [columnName : {"id"}, secure : BOOLEAN, codec : Codecs,
                     softDelete : BOOLEAN,
                     cacheEnabled : {FALSE}, eventName : {NoEvent}]
    /\ store = {1}
    /\ op = IdleOp
    /\ other = IdleOp
    /\ opCount = 0
    /\ ReadIdle

SecureNext ==
    \/ \E kind \in {"update", "replace", "remove"}, id \in SecureCallerIds,
          sid \in SecureIDOpts, tf \in BOOLEAN : SecureStart(kind, id, sid, tf)
    \/ \E ok \in BOOLEAN : ResolveAdapter(ok)
    \/ \E ok \in BOOLEAN, hidden \in BOOLEAN : ResolveFind(ok, hidden)
    \/ \E ok \in BOOLEAN, v \in {{}, {PrimaryName}} : Validate(ok, v)
    \/ \E ok \in BOOLEAN : GetAdapter(ok)
    \/ \E ok \in BOOLEAN : Write(ok)
    \/ \E ok \in BOOLEAN : Transform(ok)
    \/ Return

SecureSpec == SecureInit /\ [][SecureNext]_vars

----------------------------------------------------------------------------
(* Two update / replace / remove calls in flight on one service *)

\* the running call is suspended at its await and the other call's
\* continuation runs: nothing in the methods serialises two calls
Switch ==
    /\ op # other
    /\ op' = other
    /\ other' = op
    /\ UNCHANGED <<regVars, readVars, settings, store, opCount>>

RaceInit ==
    /\ autoReconnect = TRUE
    /\ hasDisconnect = TRUE
    /\ RegistryInit
    /\ settings \in [columnName : {"id"}, secure : {FALSE}, codec : {"default"},
                     softDelete : BOOLEAN,
                     cacheEnabled : {FALSE}, eventName : {NoEvent}]
    /\ store = {1}
    /\ op = IdleOp
    /\ other = IdleOp
    /\ opCount = 0
    /\ ReadIdle

RaceNext ==
    \/ \E id \in {1}, raw \in BOOLEAN : UpdateStart(id, {}, raw, FALSE)
    \/ \E id \in {1} : ReplaceStart(id, {}, FALSE)
    \/ \E id \in {1} : RemoveStart(id, {}, FALSE)
    \/ \E ok \in BOOLEAN : ResolveAdapter(ok)
    \/ \E ok \in BOOLEAN : ResolveFind(ok, FALSE)
    \/ \E ok \in BOOLEAN : Validate(ok, {})
    \/ \E ok \in BOOLEAN : GetAdapter(ok)
    \/ \E ok \in BOOLEAN : Write(ok)
    \/ Return
    \/ Switch

RaceSpec == RaceInit /\ [][RaceNext]_vars

----------------------------------------------------------------------------
(* resolveEntities called on its own: one id or a sequence, mapping or not *)

MaxResolve == 2       \* ids in one resolveEntities() call

\* the id values of a call: params.id is a single id or an array of ids
IdLists == UNION {[1..n -> SecureCallerIds \ {NoId}] : n \in 0..MaxResolve}

Range(f) == {f[i] : i \in DOMAIN f}

\* the orders adapter.find can return the entities of S in
Orders(S) == {f \in [1..Cardinality(S) -> S] : \A i, j \in DOMAIN f : f[i] = f[j] => i = j}

\* ids: the ids as supplied (origID); sought: the ids after _sanitizeID;
\* raw: the adapter's result (unTransformedRes), entities named by stored id
NewRs(ids, multi, mapping, throwIfNotExist, sid, tf) ==
    [IdleRs EXCEPT
        !.pc = "getAdapter", !.ids = ids, !.multi = multi, !.mapping = mapping,
        !.throwIfNotExist = throwIfNotExist, !.secureID = sid, !.transform = tf,
        !.sought = [i \in DOMAIN ids |-> SanitizeID(ids[i], sid)]]

RsFail(o, e) == [o EXCEPT !.pc = "failed", !.err = e]

NotFoundIdSanitized(o) == o.sought

\* throw new EntityNotFoundError(origID)
NotFoundId(o) == o.ids

KeyAtByRequest(o, i) == o.ids[i]

\* let id = unTransformedRes[i][idField]; if (this.$primaryField.secure) id = this.encodeID(id)
KeyAt(o, i) == IF settings.secure THEN EncodeID(o.raw[i]) ELSE o.raw[i]

\* result.reduce((map, doc, i) => { map[id] = doc; return map; }, {}): the
\* transformed entities keep the positions of unTransformedRes, a later
\* entity of the same key replaces an earlier one
Mapping(o) ==
    [k \in {KeyAt(o, i) : i \in DOMAIN o.raw} |->
        o.raw[CHOOSE i \in DOMAIN o.raw :
                 /\ KeyAt(o, i) = k
                 /\ \A j \in DOMAIN o.raw : KeyAt(o, j) = k => j <= i]]

\* the mapping, the first entity (or none) for a single id, else the sequence
RsReturn(o) ==
    [o EXCEPT !.pc = "done",
        !.ret = IF o.mapping
                THEN [kind |-> "mapping", map |-> Mapping(o), list |-> <<>>]
                ELSE IF ~o.multi
                THEN (IF o.raw = <<>>
                      THEN [kind |-> "absent", map |-> <<>>, list |-> <<>>]
                      ELSE [kind |-> "entity", map |-> <<>>, list |-> <<o.raw[1]>>])
                ELSE [kind |-> "list", map |-> <<>>, list |-> o.raw]]

\* resolveEntities(ctx, params, opts) up to await this.getAdapter(ctx);
\* _getIDFromParams throws when params carries no id (one call is followed)
ResolveCall(ids, multi, mapping, throwIfNotExist, sid, tf) ==
    /\ rs.pc = "idle"
    /\ ~multi => Len(ids) <= 1
    /\ rs' = IF ~multi /\ ids = <<>>
             THEN RsFail(IdleRs, "MISSING_ID")
             ELSE NewRs(ids, multi, mapping, throwIfNotExist, sid, tf)
    /\ UNCHANGED <<regVars, crudVars, plan, pipe>>

\* await this.getAdapter(ctx) settles
RsGetAdapter(ok) ==
    /\ rs.pc = "getAdapter"
    /\ rs' = IF ok THEN [rs EXCEPT !.pc = "find"] ELSE RsFail(rs, "ConnectionFailed")
    /\ UNCHANGED <<regVars, crudVars, plan, pipe>>

\* await adapter.find(params) settles with the entities whose id is among
\* the ids sought, in the adapter's order
RsFind(ok, result) ==
    /\ rs.pc = "find"
    /\ result \in Orders(Range(rs.sought) \cap store)
    /\ LET o == [rs EXCEPT !.searched = TRUE, !.raw = result] IN
       rs' =
         IF ~ok THEN RsFail(rs, "AdapterOperationFailed")
         ELSE IF ResolveOutcome(Range(result), o.throwIfNotExist) = "EntityNotFound"
         THEN [RsFail(o, "EntityNotFound") EXCEPT !.errId = NotFoundId(o)]
         ELSE IF o.transform THEN [o EXCEPT !.pc = "transform"]
         ELSE RsReturn(o)
    /\ UNCHANGED <<regVars, crudVars, plan, pipe>>

\* await this.transformResult(...) settles
RsTransform(ok) ==
    /\ rs.pc = "transform"
    /\ rs' = IF ok THEN RsReturn(rs) ELSE RsFail(rs, "TransformFailed")
    /\ UNCHANGED <<regVars, crudVars, plan, pipe>>

ResolveInit ==
    /\ autoReconnect = TRUE
    /\ hasDisconnect = TRUE
    /\ RegistryInit
    /\ settings \in [columnName : {"id"}, secure : BOOLEAN, codec : Codecs,
                     softDelete : {FALSE},
                     cacheEnabled : {FALSE}, eventName : {NoEvent}]
    /\ store = {1, 2}
    /\ op = IdleOp
    /\ other = IdleOp
    /\ opCount = 0
    /\ ReadIdle

ResolveNext ==
    \/ \E ids \in IdLists, multi \in BOOLEAN, mapping \in BOOLEAN,
          throwIfNotExist \in BOOLEAN, sid \in SecureIDOpts, tf \in BOOLEAN :
          ResolveCall(ids, multi, mapping, throwIfNotExist, sid, tf)
    \/ \E ok \in BOOLEAN : RsGetAdapter(ok)
    \/ \E ok \in BOOLEAN, result \in Orders(Range(rs.sought) \cap store) :
          RsFind(ok, result)
    \/ \E ok \in BOOLEAN : RsTransform(ok)

ResolveSpec == ResolveInit /\ [][ResolveNext]_vars

----------------------------------------------------------------------------
(* The query plan: sanitizeParams, _applyScopes and what the adapter is handed *)

MaxScopes == 2        \* scope names in one params.scope array

Digits == <<"0", "1", "2", "3", "4", "5", "6", "7", "8", "9">>

IsDigit(c) == \E i \in DOMAIN Digits : Digits[i] = c

DigitValue(c) == (CHOOSE i \in DOMAIN Digits : Digits[i] = c) - 1

RECURSIVE Decimal(_)
Decimal(s) ==
    IF s = <<>> THEN 0
    ELSE Decimal(SubSeq(s, 1, Len(s) - 1)) * 10 + DigitValue(s[Len(s)])

\* Number(string): the empty string is 0, decimal digits their value, and a
\* string that is no number NaN
Number(s) == IF \A i \in DOMAIN s : IsDigit(s[i]) THEN Num(Decimal(s)) ELSE NaN

\* if (typeof p.x === "string") p.x = Number(p.x)
ToNumber(v) == IF v.t = "str" THEN Number(v.s) ELSE v

\* the truthiness of a value: undefined, 0, NaN and "" are falsy
Truthy(v) == (v.t = "num" /\ v.n # 0) \/ (v.t = "str" /\ v.s # <<>>)

\* v > max: false for undefined and NaN
Greater(v, max) == v.t = "num" /\ v.n > max

\* if (mixinOpts.maxLimit > 0 && v > mixinOpts.maxLimit) v = mixinOpts.maxLimit
Clamp(v) ==
    IF plan.mixin.maxLimit > 0 /\ Greater(v, plan.mixin.maxLimit)
    THEN Num(plan.mixin.maxLimit)
    ELSE v

OffsetFromPage(page, pageSize) == page * pageSize

\* p.offset = (p.page - 1) * p.pageSize
Offset(page, pageSize) == (page - 1) * pageSize

\* if (p.x) delete p.x
RemoveIfTruthy(v) == IF Truthy(v) THEN Absent ELSE v

\* sanitizeParams(params, opts) on the pagination fields; mode is "list"
\* for opts.list, "removeLimit" for opts.removeLimit, "plain" for no opts
SanitizeParams(params, mode) ==
    LET p == [params EXCEPT !.limit = ToNumber(@), !.offset = ToNumber(@),
                            !.page = ToNumber(@), !.pageSize = ToNumber(@)]
        pageSize == Clamp(IF ~Truthy(p.pageSize)
                          THEN Num(plan.mixin.defaultPageSize) ELSE p.pageSize)
        page == IF ~Truthy(p.page) THEN Num(1) ELSE p.page
    IN  CASE mode = "removeLimit" ->
               [p EXCEPT !.limit = RemoveIfTruthy(@), !.offset = RemoveIfTruthy(@),
                         !.page = RemoveIfTruthy(@), !.pageSize = RemoveIfTruthy(@)]
          [] mode = "list" ->
               [p EXCEPT !.pageSize = pageSize, !.page = page,
                         !.limit = Clamp(pageSize),
                         !.offset = Num(Offset(page.n, pageSize.n))]
          [] OTHER -> [p EXCEPT !.limit = Clamp(@)]

SanitizeModeFindList(opName) ==
    CASE opName \in {"find", "stream", "sanitizeList"} -> "list"
      [] opName \in {"count", "findOne"} -> "removeLimit"

\* the opts each method passes to sanitizeParams: findEntities and
\* streamEntities none, countEntities and findEntity { removeLimit: true };
\* "sanitizeList" is sanitizeParams(params, { list: true }) called directly
SanitizeMode(opName) ==
    CASE opName \in {"find", "stream"} -> "plain"
      [] opName \in {"count", "findOne"} -> "removeLimit"
      [] opName = "sanitizeList" -> "list"

\* the methods that fold the scopes into the filter
ScopedOps == {"find", "stream", "count", "findOne", "resolve"}

PlanOps == ScopedOps \cup {"sanitizeList"}

\* _applyScopes, the choice of the scopes: a non-empty string and every
\* array, the empty one too, are truthy; no scope (null) is the empty sequence
ActiveScopes(scope) ==
    IF scope.t = "list" \/ (scope.t = "name" /\ scope.names # <<"">>)
    THEN scope.names
    ELSE IF scope.t # "false" THEN plan.mixin.defaultScopes
    ELSE <<>>

\* _.defaultsDeep(query, scope): the query's own value of a field wins
DefaultsDeep(query, scope) ==
    query \cup {c \in scope : \A d \in query : d[1] # c[1]}

\* this.settings.scopes: "onlyActive" is a filter fragment, "tenant" a
\* function that returns the query with its condition added; no other name
\* is registered
ApplyScope(query, scopeName) ==
    CASE scopeName = "onlyActive" -> DefaultsDeep(query, {<<"status", 1>>})
      [] scopeName = "tenant" -> query \cup {<<"tenant", 1>>}
      [] OTHER -> query

RECURSIVE Reduce(_, _)
Reduce(scopes, query) ==
    IF scopes = <<>> THEN query
    ELSE Reduce(Tail(scopes), ApplyScope(query, Head(scopes)))

\* _applyScopes(params, ctx) on a shallow copy of the caller's params: with
\* scopes to apply params.query becomes the fold over _.cloneDeep(query || {}),
\* otherwise it stays the object it was
ApplyScopes(query) ==
    IF Len(ActiveScopes(plan.in.scope)) > 0
    THEN [ref |-> "fresh", conds |-> Reduce(ActiveScopes(plan.in.scope), query.conds)]
    ELSE [ref |-> IF query.given THEN "caller" ELSE "none", conds |-> query.conds]

\* params.query[idField] = id on the object params.query is
SetCondition(conds, field, value) ==
    {c \in conds : c[1] # field} \cup {<<field, value>>}

\* resolveEntities: if (!params.query) params.query = {}; then the id condition
ResolveQuery(q) ==
    [ref |-> IF q.ref = "none" THEN "fresh" ELSE q.ref,
     conds |-> SetCondition(q.conds, "id", 1)]

AdapterMethod(opName) ==
    CASE opName \in {"find", "resolve"} -> "find"
      [] opName = "stream" -> "findStream"
      [] opName = "count" -> "count"
      [] opName = "findOne" -> "findOne"
      [] OTHER -> "none"

\* the plan a method builds from plan.in before it awaits the adapter
BuildPlan(opName) ==
    LET p == IF opName = "resolve" THEN plan.in
             ELSE SanitizeParams(plan.in, SanitizeMode(opName))
        scoped == IF opName \in ScopedOps THEN ApplyScopes(p.query)
                  ELSE [ref |-> IF p.query.given THEN "caller" ELSE "none",
                        conds |-> p.query.conds]
    IN  [method |-> AdapterMethod(opName),
         limit |-> IF opName = "findOne" THEN Num(1) ELSE p.limit,
         offset |-> p.offset, page |-> p.page, pageSize |-> p.pageSize,
         query |-> IF opName = "resolve" THEN ResolveQuery(scoped) ELSE scoped,
         active |-> IF opName \in ScopedOps THEN ActiveScopes(p.scope) ELSE <<>>]

\* the caller's query object once the plan is built: a write through
\* params.query reaches it when params.query still is that object
CallerQueryAfter(opName) ==
    IF BuildPlan(opName).query.ref = "caller"
    THEN BuildPlan(opName).query.conds
    ELSE plan.in.query.conds

\* findEntities / streamEntities / countEntities / findEntity /
\* resolveEntities up to the adapter call, or sanitizeParams in list mode
PlanCall(opName) ==
    /\ plan.pc = "idle"
    /\ plan' = [plan EXCEPT !.pc = "done", !.op = opName,
                            !.out = BuildPlan(opName),
                            !.callerAfter = CallerQueryAfter(opName)]
    /\ UNCHANGED <<regVars, crudVars, rs, pipe>>

\* the values a pagination parameter is given
ParamValues ==
    {Absent, Num(0), Num(2), Num(60),
     Str(<<>>), Str(<<"2">>), Str(<<"1", "0">>), Str(<<"x">>)}

ScopeLists == UNION {[1..n -> {"onlyActive", "tenant", "nope"}] : n \in 0..MaxScopes}

ScopeValues ==
    {NoScope, [t |-> "false", names |-> <<>>]}
    \cup {[t |-> "name", names |-> <<n>>] : n \in {"", "onlyActive", "tenant"}}
    \cup {[t |-> "list", names |-> l] : l \in ScopeLists}

QueryValues ==
    {NoQuery, [given |-> TRUE, conds |-> {}],
     [given |-> TRUE, conds |-> {<<"status", 0>>}]}

\* calls that vary the pagination parameters, and calls that vary the
\* filter and the scope
PaginationInputs ==
    [mixin : [maxLimit : {0, 50}, defaultPageSize : {10, 60}, defaultScopes : {<<>>}],
     in : [limit : ParamValues, offset : ParamValues, page : ParamValues,
           pageSize : ParamValues, query : {NoQuery}, scope : {NoScope}]]

ScopeInputs ==
    [mixin : [maxLimit : {50}, defaultPageSize : {10},
              defaultScopes : {<<>>, <<"onlyActive">>}],
     in : [limit : {Absent}, offset : {Absent}, page : {Absent},
           pageSize : {Absent}, query : QueryValues, scope : ScopeValues]]

PlanInit ==
    /\ autoReconnect = TRUE
    /\ hasDisconnect = TRUE
    /\ RegistryInit
    /\ CrudIdle
    /\ rs = IdleRs
    /\ pipe = IdlePipe
    /\ \E i \in PaginationInputs \cup ScopeInputs :
          plan = [IdlePlan EXCEPT !.mixin = i.mixin, !.in = i.in]

PlanNext == \E opName \in PlanOps : PlanCall(opName)

PlanSpec == PlanInit /\ [][PlanNext]_vars

----------------------------------------------------------------------------
(* streamEntities: the adapter's stream piped into the per-item Transform *)

MaxItems == 2         \* entities the adapter's stream holds

ItemIds == 1..MaxItems

Sources == UNION {[1..n -> ItemIds] : n \in 0..MaxItems}

\* what an async transform function does to the Transform when its promise
\* rejects: the stream implementation of the runtime either ignores the
\* promise, and done is never called, or destroys the Transform with the error
RejectionOutcomes == {"ignored", "destroyed"}

\* streamEntities(ctx, params, opts) up to its return: getAdapter and
\* adapter.findStream are awaited, then, unless opts.transform is false, the
\* stream is piped into a new Transform and the Transform is returned
StreamCall(src, tf, ok) ==
    /\ pipe.pc = "idle"
    /\ pipe' = IF ~ok THEN [pipe EXCEPT !.pc = "failed"]
               ELSE [pipe EXCEPT !.pc = "open", !.transform = tf, !.src = src,
                                 !.srcState = "flowing", !.consumer = "waiting"]
    /\ UNCHANGED <<regVars, crudVars, rs, plan>>

\* the consumer still holds a live stream
Open == pipe.pc = "open" /\ pipe.consumer = "waiting"

\* the source emits its next entity: pipe writes it to the Transform; with
\* no Transform the consumer reads the source itself
SourceData ==
    /\ Open /\ pipe.srcState = "flowing"
    /\ pipe.sent < Len(pipe.src)
    /\ pipe' = IF pipe.transform
               THEN [pipe EXCEPT !.sent = @ + 1,
                                 !.queue = Append(@, pipe.src[pipe.sent + 1])]
               ELSE [pipe EXCEPT !.sent = @ + 1,
                                 !.out = Append(@, pipe.src[pipe.sent + 1])]
    /\ UNCHANGED <<regVars, crudVars, rs, plan>>

\* the source emits 'end': pipe calls transform.end()
SourceEnd ==
    /\ Open /\ pipe.srcState = "flowing"
    /\ pipe.sent = Len(pipe.src)
    /\ pipe' = IF pipe.transform
               THEN [pipe EXCEPT !.srcState = "ended", !.ending = TRUE]
               ELSE [pipe EXCEPT !.srcState = "ended", !.consumer = "ended"]
    /\ UNCHANGED <<regVars, crudVars, rs, plan>>

\* the source emits 'error': stream.pipe(transform) forwards no error and
\* does not end the Transform; only a consumer of the source itself sees it
SourceError ==
    /\ Open /\ pipe.srcState = "flowing"
    /\ pipe' = IF pipe.transform
               THEN [pipe EXCEPT !.srcState = "errored"]
               ELSE [pipe EXCEPT !.srcState = "errored", !.consumer = "errored"]
    /\ UNCHANGED <<regVars, crudVars, rs, plan>>

\* the Transform takes its next chunk: transform(doc, encoding, done) runs
\* up to await self.transformResult(...)
TransformBegin ==
    /\ Open /\ pipe.transform
    /\ pipe.busy = NoItem /\ ~pipe.stuck
    /\ pipe.queue # <<>>
    /\ pipe' = [pipe EXCEPT !.busy = Head(pipe.queue), !.queue = Tail(pipe.queue)]
    /\ UNCHANGED <<regVars, crudVars, rs, plan>>

\* transformResult fulfils: this.push(res); return done()
TransformDone ==
    /\ Open /\ pipe.busy # NoItem /\ ~pipe.stuck
    /\ pipe' = [pipe EXCEPT !.out = Append(@, pipe.busy), !.busy = NoItem]
    /\ UNCHANGED <<regVars, crudVars, rs, plan>>

\* transformResult rejects: the async function's promise rejects, push and
\* done are not reached
TransformReject(outcome) ==
    /\ Open /\ pipe.busy # NoItem /\ ~pipe.stuck
    /\ pipe' = IF outcome = "destroyed"
               THEN [pipe EXCEPT !.consumer = "errored"]
               ELSE [pipe EXCEPT !.stuck = TRUE]
    /\ UNCHANGED <<regVars, crudVars, rs, plan>>

\* the ended Transform has passed on every chunk: the consumer sees 'end'
TransformEnd ==
    /\ Open /\ pipe.transform
    /\ pipe.ending /\ pipe.queue = <<>> /\ pipe.busy = NoItem
    /\ pipe' = [pipe EXCEPT !.consumer = "ended"]
    /\ UNCHANGED <<regVars, crudVars, rs, plan>>

StreamInit ==
    /\ autoReconnect = TRUE
    /\ hasDisconnect = TRUE
    /\ RegistryInit
    /\ CrudIdle
    /\ rs = IdleRs
    /\ plan = IdlePlan
    /\ pipe = IdlePipe

StreamNext ==
    \/ \E src \in Sources, tf \in BOOLEAN, ok \in BOOLEAN : StreamCall(src, tf, ok)
    \/ SourceData
    \/ SourceEnd
    \/ SourceError
    \/ TransformBegin
    \/ TransformDone
    \/ \E outcome \in RejectionOutcomes : TransformReject(outcome)
    \/ TransformEnd

StreamSpec == StreamInit /\ [][StreamNext]_vars

----------------------------------------------------------------------------
(* Adapter registry: claims C1 - C6 *)

Created(a) == inst[a].loop # "none"

InLoop(a) == inst[a].loop \in {"connecting", "timer"}

\* connecting, in the reconnect loop, or connected with no disconnect under way
Live(a) == InLoop(a) \/ (inst[a].up /\ inst[a].disc # "pending")

\* C1: every adapter a getAdapter call has returned had completed a successful
\* connect() when it was returned
C1_ReturnedAdapterIsConnected ==
    \A c \in Calls : call[c].st = "returned" => call[c].connected

\* C2: getAdapter calls made with the same tenant key between two
\* disconnectAll calls get the identical adapter instance, and exactly one
\* adapter is created for that key in that interval
C2_SameKeySameAdapter ==
    /\ \A c1, c2 \in Calls :
          (/\ call[c1].st # "idle" /\ call[c2].st # "idle"
           /\ call[c1].key = call[c2].key
           /\ call[c1].epoch = call[c2].epoch)
          => call[c1].adapter = call[c2].adapter
    /\ \A a1, a2 \in AdapterIds :
          (/\ Created(a1) /\ Created(a2)
           /\ inst[a1].key = inst[a2].key
           /\ inst[a1].epoch = inst[a2].epoch)
          => a1 = a2

\* a second caller got the adapter while the first caller's connect was pending
C2_Witness ==
    \E c1, c2 \in Calls :
        /\ c1 # c2
        /\ call[c1].st = "pending" /\ call[c1].creator
        /\ call[c2].st = "returned" /\ ~call[c2].creator
        /\ call[c1].key = call[c2].key
        /\ call[c1].epoch = call[c2].epoch
        /\ call[c2].adapter = c1

\* C3: every live adapter is the one the registry holds for its key (so at
\* most one adapter per key is live, and none created before a disconnectAll
\* is still connecting or connected after it)
C3_LiveAdapterIsRegistered ==
    \A a \in AdapterIds : Live(a) => adapters[inst[a].key] = a

\* C4: with auto-reconnect the creating getAdapter call never fails on a
\* connect() failure: each failure schedules one further attempt, the call
\* stays pending while attempts fail and returns only on a success, after
\* which no further attempt is made; under fairness every attempt settles, a
\* scheduled retry is made, and once connect() has succeeded the pending call
\* returns
C4_RetryStep ==
    autoReconnect =>
      /\ \A a \in AdapterIds :
           /\ (inst[a].loop = "connecting" /\ inst'[a].loop # "connecting")
                => inst'[a].loop \in {"resolved", "timer"}
           /\ (inst[a].loop = "timer" /\ inst'[a].loop # "timer")
                => inst'[a].loop = "connecting"
           /\ inst[a].loop = "resolved"
                => inst'[a].loop = "resolved" /\ inst'[a].attempts = inst[a].attempts
      /\ \A c \in Calls :
           (call[c].st = "pending" /\ call'[c].st # "pending")
             => call'[c].st = "returned" /\ inst[c].loop = "resolved"

C4_AutoReconnect ==
    /\ [](autoReconnect =>
            /\ \A c \in Calls : call[c].st # "failed"
            /\ \A a \in AdapterIds : inst[a].loop # "rejected")
    /\ [][C4_RetryStep]_vars
    /\ \A a \in AdapterIds :
          /\ (autoReconnect /\ inst[a].loop = "connecting")
                ~> (inst[a].loop \in {"resolved", "timer"})
          /\ (autoReconnect /\ inst[a].loop = "timer")
                ~> (inst[a].loop = "connecting")
    /\ \A c \in Calls :
          (autoReconnect /\ call[c].st = "pending" /\ inst[c].loop = "resolved")
             ~> (call[c].st = "returned")

\* a creating call returned after at least one failed attempt
C4_Witness ==
    /\ autoReconnect
    /\ \E c \in Calls :
          call[c].creator /\ call[c].st = "returned" /\ inst[c].attempts >= 2

\* C5: without auto-reconnect the creating call makes exactly one connect()
\* attempt; when it fails no retry is scheduled, the call fails with the error
\* connect() rejected with, and the adapter is not returned to that caller
C5_NoReconnect ==
    ~autoReconnect =>
      /\ \A a \in AdapterIds :
           /\ Created(a) => inst[a].attempts = 1
           /\ inst[a].loop # "timer"
      /\ \A c \in Calls :
           /\ (call[c].creator /\ inst[c].loop = "rejected")
                => call[c].st \in {"pending", "failed"}
           /\ call[c].st = "failed"
                => /\ call[c].creator
                   /\ inst[c].loop = "rejected"
                   /\ call[c].err \in ConnectErrors
                   /\ call[c].err = inst[c].err
                   /\ ~call[c].connected

C5_Witness ==
    /\ ~autoReconnect
    /\ \E c \in Calls : call[c].st = "failed" /\ inst[c].attempts = 1

\* C6: disconnectAll calls disconnect once on every adapter that was in the
\* registry, empties the registry, and completes, fulfilled or rejected, only
\* after every one of those disconnects has settled
C6_DisconnectAllWaitsForAll ==
    /\ \A a \in AdapterIds : inst[a].discCalls <= 1
    /\ \A d \in DCalls :
          dcall[d].st # "idle" =>
             \A a \in dcall[d].targets :
                 /\ inst[a].disc # "none"
                 /\ adapters[inst[a].key] # a
                 /\ dcall[d].st \in {"resolved", "rejected"}
                      => inst[a].disc # "pending"

----------------------------------------------------------------------------
(* Entity operations: claims C7 - C10 *)

IdOps == {"update", "replace", "remove"}

Events(kinds) == {i \in DOMAIN op.trace : op.trace[i][1] \in kinds}

Has(e) == \E i \in DOMAIN op.trace : op.trace[i] = e

\* C7: in update, replace and remove the existence check has found the entity
\* before validation is invoked and before an adapter write is called; when no
\* entity has the id the operation fails with EntityNotFound, and validation,
\* the adapter write and the change notification never happen
C7_ExistenceCheckFirst ==
    op.kind \in IdOps =>
      /\ \A i \in Events({"validate", "invalid", "call", "done", "broadcast", "hook"}) :
            \E j \in 1..(i - 1) : op.trace[j] = <<"resolve", "found">>
      /\ Has(<<"resolve", "empty">>) =>
            /\ op.pc = "failed" /\ op.err = "EntityNotFound"
            /\ ~Has(<<"resolve", "found">>)
      /\ (op.id # NoId /\ op.id \notin op.before) =>
            /\ op.pc # "done"
            /\ op.pc = "failed" =>
                 op.err \in {"EntityNotFound", "ConnectionFailed",
                             "AdapterOperationFailed"}
            /\ ~Has(<<"resolve", "found">>)
            /\ store = op.before

\* an update, replace or remove of an id that is not stored has failed
C7_Witness ==
    /\ op.kind \in IdOps
    /\ op.id \notin store
    /\ op.pc = "failed" /\ op.err = "EntityNotFound"
    /\ Has(<<"resolve", "empty">>)

\* C8: the payload update and replace hand to updateById / replaceById holds
\* neither the primary field's name nor its column name
C8_NoPrimaryInPayload ==
    (op.kind \in {"update", "replace"} /\ Events({"call"}) # {}) =>
       /\ PrimaryName \notin op.sent
       /\ settings.columnName \notin op.sent

\* a raw update whose params carry both the name and the distinct column name
C8_Witness ==
    /\ op.kind = "update" /\ op.raw
    /\ settings.columnName = "_id"
    /\ {"id", "_id"} \subseteq op.given
    /\ Has(<<"done", "updateById">>)

NotifiedOnce(eventName) ==
    /\ Cardinality(Events({"hook"})) = 1
    /\ Has(<<"hook", ChangeType(op.kind)>>)
    /\ \A h \in Events({"hook"}) :
          /\ \E w \in 1..(h - 1) : op.trace[w] = <<"done", WriteMethod(op.kind)>>
          /\ \A b \in Events({"broadcast"}) : b < h
    /\ IF eventName # NoEvent
       THEN Cardinality(Events({"broadcast"})) = 1
       ELSE Events({"broadcast"}) = {}

NothingBeforeWrite ==
    Events({"done"}) = {} => Events({"broadcast", "hook"}) = {}

\* C9 as claimed: a successful operation calls the hook once, with its type,
\* after the write and before it returns; one broadcast precedes the hook
\* when a cache event name is configured and none is made otherwise; nothing
\* is emitted unless the write has completed
C9_NotifyByEventName ==
    /\ op.pc = "done" => NotifiedOnce(settings.eventName)
    /\ NothingBeforeWrite

\* C9 as amended: the broadcast is made when the cache is enabled and has an
\* event name, and not made when the cache is disabled or has no event name
C9_NotifyByCacheOpts ==
    /\ op.pc = "done" =>
          NotifiedOnce(IF settings.cacheEnabled THEN settings.eventName ELSE NoEvent)
    /\ NothingBeforeWrite

\* a remove returned after its broadcast and hook
C9_Witness ==
    /\ op.pc = "done" /\ op.kind = "remove"
    /\ settings.cacheEnabled /\ settings.eventName # NoEvent
    /\ Has(<<"broadcast", settings.eventName>>)
    /\ Has(<<"hook", "remove">>)

\* C10: when the validation of a create payload, or of one payload of a
\* createMany batch, is rejected, the operation fails with the validation
\* error, insert / insertMany is never called, nothing is stored and no change
\* notification is emitted
C10_InvalidCreateStoresNothing ==
    (op.kind \in {"create", "createMany"} /\ Has(<<"invalid", "create">>)) =>
       /\ op.pc = "failed" /\ op.err = "ValidationFailed"
       /\ Events({"call", "done", "broadcast", "hook"}) = {}
       /\ store = op.before

\* a batch of two of which one payload passed validation and the other failed
C10_Witness ==
    /\ op.kind = "createMany" /\ op.batch = 2
    /\ Cardinality(op.pendingV) = 1
    /\ op.pc = "failed" /\ op.err = "ValidationFailed"

----------------------------------------------------------------------------
(* Claims C11 and C19: remove, and the id the write is given *)

\* C11: a remove that has found its entity and returned has called updateById
\* and never removeById when soft delete is configured, leaving the entity in
\* storage, and removeById and never updateById otherwise; under every
\* secure-id setting it returns the id exactly as the caller supplied it, and
\* the change notification is given softDelete equal to the configured mode
C11_RemoveSoftOrHard ==
    (op.kind = "remove" /\ op.pc = "done") =>
      /\ Has(<<"resolve", "found">>)
      /\ IF settings.softDelete
         THEN /\ Has(<<"done", "updateById">>)
              /\ ~Has(<<"call", "removeById">>)
              /\ ResolveID(op) \in store
         ELSE /\ Has(<<"done", "removeById">>)
              /\ ~Has(<<"call", "updateById">>)
      /\ op.ret = op.id
      /\ Has(<<"hook", "remove">>)
      /\ op.changeOpts = (IF settings.softDelete THEN "true" ELSE "false")

\* a soft-delete remove has returned an encoded id: the id the adapter was
\* given is its decoded form
C11_Witness ==
    /\ op.kind = "remove" /\ op.pc = "done"
    /\ settings.softDelete
    /\ op.target # op.id
    /\ op.ret = op.id

\* C19: in update, replace and remove, whatever the per-call secureID option
\* and the secure flag of the primary field, the id passed to updateById /
\* replaceById / removeById is the id whose existence resolve has checked
C19_WriteTargetsResolvedId ==
    (op.kind \in IdOps /\ Events({"call"}) # {}) => op.target = ResolveID(op)

----------------------------------------------------------------------------
(* Claim C20: calls that overlap *)

WriteCalled(o) == \E i \in DOMAIN o.trace : o.trace[i][1] = "call"

Succeeded(o, kind) ==
    /\ o.kind = kind /\ o.pc = "done"
    /\ \E i \in DOMAIN o.trace : o.trace[i] = <<"hook", kind>>

\* C20: however update, replace and remove calls on one id interleave, the
\* adapter write of a call is invoked only while the entity its existence
\* check found is still in storage; so of two hard-delete removes of one id
\* at most one returns and notifies, and no update returns and notifies for
\* an entity that was hard-deleted before its write was invoked
C20_WriteOnlyWhileStored ==
    /\ \A o \in {op, other} : (o.kind \in IdOps /\ WriteCalled(o)) => o.hit
    /\ ~settings.softDelete =>
          ~(Succeeded(op, "remove") /\ Succeeded(other, "remove") /\ op.id = other.id)
    /\ \A o \in {op, other} : Succeeded(o, "update") => o.hit

----------------------------------------------------------------------------
(* Claims C12 and C13: resolveEntities *)

\* adapter.find has answered and found no entity
FoundNone == rs.pc \in {"transform", "done", "failed"} /\ rs.searched /\ rs.raw = <<>>

\* C12: when the adapter's query finds no entity, a resolve with
\* throwIfNotExist fails with EntityNotFound carrying the id exactly as the
\* caller supplied it; without throwIfNotExist it does not fail for that, and
\* for a single id without mapping it returns the absent result
C12_EmptyResolve ==
    FoundNone =>
      IF rs.throwIfNotExist
      THEN rs.pc = "failed" /\ rs.err = "EntityNotFound" /\ rs.errId = rs.ids
      ELSE /\ rs.err \in {NoErr, "TransformFailed"}
           /\ (rs.pc = "done" /\ ~rs.multi /\ ~rs.mapping) => rs.ret.kind = "absent"

\* an encoded id that decodes to no stored id has been reported as supplied
C12_Witness ==
    /\ FoundNone /\ rs.throwIfNotExist
    /\ rs.err = "EntityNotFound"
    /\ rs.ids # <<>> /\ rs.sought # rs.ids
    /\ rs.errId = rs.ids

\* a resolve with mapping has returned
Mapped == rs.pc = "done" /\ rs.mapping

\* the requested ids for which an entity is stored
RequestedExisting == {rs.ids[i] : i \in {j \in DOMAIN rs.ids : rs.sought[j] \in store}}

\* the form the primary field prescribes for the id of a stored entity
FieldForm(id) == IF settings.secure THEN EncodeID(id) ELSE id

OptionAgrees == rs.secureID \in {"unset", IF settings.secure THEN "true" ELSE "false"}

----------------------------------------------------------------------------
(* Claims C14, C15, C16 and C18: the query plan *)

Planned(ops) == plan.pc = "done" /\ plan.op \in ops

\* limit = pageSize and offset = (page - 1) * pageSize, all four numbers
Paginated(o) ==
    /\ o.limit.t = "num" /\ o.offset.t = "num"
    /\ o.page.t = "num" /\ o.pageSize.t = "num"
    /\ o.limit.n = o.pageSize.n
    /\ o.offset.n = (o.page.n - 1) * o.pageSize.n

\* pageSize and limit are within maxLimit when it is positive
Clamped(o) ==
    plan.mixin.maxLimit > 0 =>
      o.pageSize.n <= plan.mixin.maxLimit /\ o.limit.n <= plan.mixin.maxLimit

\* the page and pageSize the defaults give: 1 and defaultPageSize where the
\* caller's value is absent, 0, NaN or ""
Defaulted(o) ==
    /\ ~Truthy(ToNumber(plan.in.page)) => o.page.n = 1
    /\ ~Truthy(ToNumber(plan.in.pageSize)) =>
          o.pageSize.n = IF plan.mixin.maxLimit > 0
                            /\ plan.mixin.defaultPageSize > plan.mixin.maxLimit
                         THEN plan.mixin.maxLimit
                         ELSE plan.mixin.defaultPageSize

\* C14 as claimed: the plan find and stream hand to the adapter has limit =
\* pageSize and offset = (page - 1) * pageSize, with the defaults applied and
\* pageSize clamped to maxLimit, whatever limit and offset the caller gave
C14_FindPaginates ==
    Planned({"find", "stream"}) =>
      Paginated(plan.out) /\ Clamped(plan.out) /\ Defaulted(plan.out)

\* C14 as amended: find and stream sanitize in neither mode; the plan handed
\* to the adapter carries the caller's limit as a number, clamped to maxLimit
\* when maxLimit > 0, and the caller's offset, page and pageSize as numbers,
\* unchanged
C14_FindKeepsLimitOffset ==
    Planned({"find", "stream"}) =>
      /\ plan.out.method = (IF plan.op = "find" THEN "find" ELSE "findStream")
      /\ plan.out.limit =
            (IF plan.mixin.maxLimit > 0
                /\ ToNumber(plan.in.limit).t = "num"
                /\ ToNumber(plan.in.limit).n > plan.mixin.maxLimit
             THEN Num(plan.mixin.maxLimit)
             ELSE ToNumber(plan.in.limit))
      /\ plan.out.offset = ToNumber(plan.in.offset)
      /\ plan.out.page = ToNumber(plan.in.page)
      /\ plan.out.pageSize = ToNumber(plan.in.pageSize)

\* find with page "2", pageSize "10", limit 60 and offset 2 under maxLimit 50
\* has handed over limit 50 and offset 2
C14_Witness ==
    /\ Planned({"find"})
    /\ plan.mixin.maxLimit = 50
    /\ plan.in.page = Str(<<"2">>) /\ plan.in.pageSize = Str(<<"1", "0">>)
    /\ plan.in.limit = Num(60) /\ plan.in.offset = Num(2)
    /\ plan.out.limit = Num(50) /\ plan.out.offset = Num(2)

\* C15: sanitizeParams in list mode, whatever page, pageSize, limit and
\* offset it is given as numbers or numeric strings or not at all, yields
\* limit = pageSize and offset = (page - 1) * pageSize, pageSize and limit
\* within maxLimit when maxLimit > 0 and not clamped when it is 0; page "2",
\* pageSize "10" under maxLimit 50 give limit 10, offset 10, page 2, pageSize 10
C15_ListPagination ==
    Planned({"sanitizeList"}) =>
      /\ Paginated(plan.out) /\ Clamped(plan.out) /\ Defaulted(plan.out)
      /\ (plan.mixin.maxLimit = 0 /\ Truthy(ToNumber(plan.in.pageSize))) =>
            plan.out.pageSize = ToNumber(plan.in.pageSize)
      /\ (/\ plan.in.page = Str(<<"2">>) /\ plan.in.pageSize = Str(<<"1", "0">>)
          /\ plan.mixin.maxLimit = 50) =>
            /\ plan.out.limit = Num(10) /\ plan.out.offset = Num(10)
            /\ plan.out.page = Num(2) /\ plan.out.pageSize = Num(10)

\* the example of the claim, with a limit and an offset that are overridden
C15_Witness ==
    /\ Planned({"sanitizeList"})
    /\ plan.in.page = Str(<<"2">>) /\ plan.in.pageSize = Str(<<"1", "0">>)
    /\ plan.in.limit = Num(60) /\ plan.in.offset = Str(<<"2">>)
    /\ plan.mixin.maxLimit = 50
    /\ plan.out.limit = Num(10) /\ plan.out.offset = Num(10)

\* params.scope is present and non-empty
ScopeGiven(scope) ==
    \/ scope.t = "name" /\ scope.names # <<"">>
    \/ scope.t = "list" /\ scope.names # <<>>

\* C16: the active scope set is the explicit scope, normalised to a
\* sequence, when it is present and non-empty, no scope when scope is false,
\* and the default scopes in every other case, scope absent or an empty
\* sequence included; with scope false and default scopes configured the
\* filter handed to the adapter is the caller's filter
C16_ActiveScopeSet ==
    Planned(ScopedOps) =>
      /\ plan.out.active =
            (IF ScopeGiven(plan.in.scope) THEN plan.in.scope.names
             ELSE IF plan.in.scope.t = "false" THEN <<>>
             ELSE plan.mixin.defaultScopes)
      /\ (/\ plan.in.scope.t = "false" /\ plan.mixin.defaultScopes # <<>>
          /\ plan.op # "resolve") =>
            plan.out.query.conds = plan.in.query.conds

\* C18: no query-plan operation (find, stream, count, findOne, resolve and
\* with it the resolve step of update, replace and remove) changes the
\* caller's filter, scopes active or not, the primary-column condition of
\* resolve included
C18_CallerFilterUntouched ==
    Planned(ScopedOps) => plan.callerAfter = plan.in.query.conds

----------------------------------------------------------------------------
(* Claim C17: errors in the stream pipeline *)

\* nothing more will happen in the pipeline
Quiet ==
    /\ pipe.pc = "open"
    /\ ~ENABLED (SourceData \/ SourceEnd \/ SourceError \/ TransformBegin
                 \/ TransformDone \/ TransformEnd
                 \/ \E outcome \in RejectionOutcomes : TransformReject(outcome))

\* the source has emitted an error or a transformResult has rejected
PipeFailed == pipe.srcState = "errored" \/ pipe.stuck \/ pipe.consumer = "errored"

\* C17: in a stream with the per-item transform an error of the source or of
\* the transform of an item ends the pipeline and reaches the consumer as an
\* error, so the consumer of a failed pipeline is never left waiting; what
\* was forwarded before stays delivered, in the source's order
C17_ErrorReachesConsumer ==
    pipe.transform =>
      /\ (PipeFailed /\ Quiet) => pipe.consumer = "errored"
      /\ Len(pipe.out) <= Len(pipe.src)
      /\ pipe.out = SubSeq(pipe.src, 1, Len(pipe.out))

====
